---- MODULE Spec2Model ----
(***************************************************************************)
(* Model of src/dataloader.py: the Streamlit e-mail notification app.      *)
(*                                                                         *)
(* Every operator interaction re-runs main() top to bottom for one browser *)
(* session.  A run is one action: it takes the one button that was pressed *)
(* (or none, for a widget change), the widget values of the run, and       *)
(* executes the Recipients tab, the Topics tab and the Notifications tab   *)
(* in the order of the script, stopping where the script raises.           *)
(* st.session_state is per session; data.json is shared by all sessions.   *)
(***************************************************************************)
EXTENDS Integers, Sequences, FiniteSets, TLC

VARIABLES
    session,   \* st.session_state of each session: started, recipients, topics
    file,      \* data.json: absent, a saved document, or a truncated one
    now,       \* the wall clock read by datetime.now()
    sends,     \* transport sends issued, per <<session, recipient, topic, time>>
    steps,     \* number of script runs so far
    budget,    \* number of script runs the model explores
    last       \* the latest script run: its button, its session, what it merged

vars == <<session, file, now, sends, steps, budget, last>>

----------------------------------------------------------------------------
(* Bounds of the model.                                                    *)

MaxRecipients == 2
MaxTime == 1
MaxSteps == 3
MaxConcSteps == 2
MaxColumn == 2

Sessions == {"s1", "s2"}
Emails == {"a@x.com", "b@x.com"}
EmailTexts == Emails \cup {"", "not-an-email"}
Topics == {"billing", "security"}
Times == 0..MaxTime

----------------------------------------------------------------------------
(* Data model (lines 26-35).                                               *)

\* Optional[datetime] = None
None == -1

\* the options of the "Frequency" selectbox
Frequencies == {"instant", "daily", "weekly", "monthly"}

Notification(topic, frequency, last_sent) ==
    [topic |-> topic, frequency |-> frequency, last_sent |-> last_sent]

\* Recipient(email=new_email).dict(): EmailStr validation, empty lists
ValidEmail(text) == text \in Emails

Recipient(email) == [email |-> email, topics |-> <<>>, notifications |-> <<>>]

----------------------------------------------------------------------------
(* Sequence helpers.                                                       *)

ToSet(q) == {q[i] : i \in 1..Len(q)}

DupFreeSeqs(S) ==
    {q \in UNION {[1..n -> S] : n \in 0..Cardinality(S)} :
        \A i, j \in 1..Len(q) : i # j => q[i] # q[j]}

SeqsUpTo(S, n) == UNION {[1..k -> S] : k \in 0..n}

\* list.pop(i), 1-based
Pop(q, i) == [k \in 1..(Len(q) - 1) |-> IF k < i THEN q[k] ELSE q[k + 1]]

\* list.index(x): the first position of x
IndexOf(q, x) == CHOOSE i \in 1..Len(q) : q[i] = x /\ \A j \in 1..(i - 1) : q[j] # x

\* [r["email"] for r in st.session_state.recipients]
EmailsOf(recipients) == [i \in 1..Len(recipients) |-> recipients[i].email]

\* Series.unique(): first occurrences, in order
RECURSIVE Unique(_)
Unique(q) ==
    IF q = <<>> THEN <<>>
    ELSE LET front == Unique(SubSeq(q, 1, Len(q) - 1))
             x == q[Len(q)]
         IN IF x \in ToSet(front) THEN front ELSE Append(front, x)

----------------------------------------------------------------------------
(* Topic import (lines 39-113).  A fetch either fails in one of the ways   *)
(* the function handles, all of which return [], or yields the third       *)
(* column of the sheet.                                                    *)

FetchFailures == {"exception", "open_failed", "empty_sheet", "few_columns"}

FetchOutcomes ==
    {[kind |-> k, column |-> <<>>] : k \in FetchFailures}
    \cup {[kind |-> "ok", column |-> c] : c \in SeqsUpTo(Topics, MaxColumn)}

load_topics_from_sheets(fetch) ==
    IF fetch.kind = "ok" THEN Unique(fetch.column) ELSE <<>>

----------------------------------------------------------------------------
(* data.json (lines 117-127).                                              *)

\* a document the app has saved: one recipient added, the topics loaded
SeededFile ==
    [status |-> "ok", recipients |-> <<Recipient("a@x.com")>>,
     topics |-> <<"billing">>]

NoFile == [status |-> "absent", recipients |-> <<>>, topics |-> <<>>]

\* json.dump raises TypeError on a datetime
Serializable(recipients) ==
    \A i \in 1..Len(recipients) :
        \A k \in 1..Len(recipients[i].notifications) :
            recipients[i].notifications[k].last_sent = None

\* open("data.json", "w") truncates; json.dump writes chunk by chunk, so a
\* TypeError leaves a truncated document behind
save_data(recipients, topics) ==
    IF Serializable(recipients)
    THEN [status |-> "ok", recipients |-> recipients, topics |-> topics]
    ELSE [status |-> "corrupt", recipients |-> <<>>, topics |-> <<>>]

\* json.load of a truncated document raises (callers guard on status)
load_data(f) ==
    IF f.status = "ok"
    THEN [recipients |-> f.recipients, topics |-> f.topics]
    ELSE [recipients |-> <<>>, topics |-> <<>>]

----------------------------------------------------------------------------
(* Notifications tab, widgets (lines 262-293).                             *)

\* The widget values of a run.  fresh: the first run of a session, where
\* every widget shows its default.  A "Frequency" selectbox exists only for
\* a selected topic; elsewhere the value is the default.
FreqChoices(q) ==
    {g \in [Topics -> Frequencies] :
        \A t \in Topics \ ToSet(q) : g[t] = "instant"}

WidgetInputs ==
    UNION {{[fresh |-> FALSE, sel |-> e, selected |-> q, freq |-> f] :
               e \in Emails, f \in FreqChoices(q)} : q \in DupFreeSeqs(Topics)}

DefaultWidgets ==
    [fresh |-> TRUE, sel |-> "a@x.com", selected |-> <<>>,
     freq |-> [t \in Topics |-> "instant"]]

\* lines 262-266: the selectbox falls back to its first option when the
\* chosen address is not (or no longer) among the options; 0 stands for None
SelectedRecipient(rs, w) ==
    IF rs.recipients = <<>> THEN 0
    ELSE IF w.fresh \/ w.sel \notin ToSet(EmailsOf(rs.recipients)) THEN 1
    ELSE IndexOf(EmailsOf(rs.recipients), w.sel)

\* line 273: st.multiselect raises when a default is not among the options
DefaultsValid(rs, idx) ==
    ToSet(rs.recipients[idx].topics) \subseteq ToSet(rs.topics)

\* lines 270-274: the selection, or the default when the selection is not
\* among the options
SelectedTopics(rs, w, idx) ==
    IF w.fresh \/ ~(ToSet(w.selected) \subseteq ToSet(rs.topics))
    THEN rs.recipients[idx].topics
    ELSE w.selected

\* lines 289-293: "instant" is the first option, hence the default
Frequency(w, topic) == IF w.fresh THEN "instant" ELSE w.freq[topic]

----------------------------------------------------------------------------
(* The state a script run works on: the session's lists, the file, the     *)
(* sends issued, whether an uncaught exception has ended the run, and what *)
(* the Notifications tab merged (for the record of the run).               *)

RunState(s, recipients, topics) ==
    [sess |-> s, recipients |-> recipients, topics |-> topics,
     file |-> file, sends |-> sends, raised |-> FALSE,
     merged |-> FALSE, idx |-> 0, selected |-> <<>>,
     freq |-> [t \in Topics |-> "instant"]]

Begin(s) == RunState(s, session[s].recipients, session[s].topics)

\* save_data called outside any try: a TypeError ends the run
SaveOrRaise(rs) ==
    [rs EXCEPT !.file = save_data(rs.recipients, rs.topics),
               !.raised = ~Serializable(rs.recipients)]

\* lines 213-220: no look-up of the address; the except clause swallows a
\* failed save, after the append
add_recipient(rs, new_email) ==
    IF new_email = "" \/ ~ValidEmail(new_email) THEN rs
    ELSE LET recs == Append(rs.recipients, Recipient(new_email))
         IN [rs EXCEPT !.recipients = recs,
                       !.file = save_data(recs, rs.topics)]

\* lines 229-232
remove_recipient(rs, i) ==
    SaveOrRaise([rs EXCEPT !.recipients = Pop(rs.recipients, i)])

reload_topics_unguarded(rs, fetch) ==
    SaveOrRaise([rs EXCEPT !.topics = load_topics_from_sheets(fetch)])

\* lines 244-250
reload_topics(rs, fetch) ==
    LET topics == load_topics_from_sheets(fetch)
    IN IF topics # <<>> THEN SaveOrRaise([rs EXCEPT !.topics = topics]) ELSE rs

----------------------------------------------------------------------------
(* Notifications tab, the merge (lines 284-340).                           *)

update_notification_append(notifications, topic, frequency, t) ==
    Append(notifications,
        Notification(topic, frequency,
            IF frequency = "instant" THEN t ELSE None))

update_notification_restamp(notifications, topic, frequency, t) ==
    LET hits == {i \in 1..Len(notifications) : notifications[i].topic = topic}
    IN IF hits # {}
       THEN LET i == CHOOSE k \in hits : \A j \in hits : k <= j
            IN [notifications EXCEPT ![i] = Notification(topic, frequency, t)]
       ELSE Append(notifications,
                Notification(topic, frequency,
                    IF frequency = "instant" THEN t ELSE None))

update_notification_reset(notifications, topic, frequency, t) ==
    LET hits == {i \in 1..Len(notifications) : notifications[i].topic = topic}
    IN IF hits # {}
       THEN LET i == CHOOSE k \in hits : \A j \in hits : k <= j
            IN [notifications EXCEPT ![i] =
                   Notification(topic, frequency,
                       IF frequency = "instant" THEN t ELSE None)]
       ELSE Append(notifications,
                Notification(topic, frequency,
                    IF frequency = "instant" THEN t ELSE None))

\* lines 306-336, one topic of the loop: the first record of the topic is
\* replaced, or a record is appended
update_notification(notifications, topic, frequency, t) ==
    LET hits == {i \in 1..Len(notifications) : notifications[i].topic = topic}
    IN IF hits # {}
       THEN LET i == CHOOSE k \in hits : \A j \in hits : k <= j
            IN [notifications EXCEPT ![i] =
                   Notification(topic, frequency,
                       IF frequency = "instant" THEN t
                       ELSE notifications[i].last_sent)]
       ELSE Append(notifications,
                Notification(topic, frequency,
                    IF frequency = "instant" THEN t ELSE None))

RECURSIVE merge_loop(_, _, _, _)
merge_loop(notifications, selected, w, t) ==
    IF selected = <<>> THEN notifications
    ELSE merge_loop(
             update_notification(notifications, Head(selected),
                                 Frequency(w, Head(selected)), t),
             Tail(selected), w, t)

\* the loop run over every known topic instead of the selected ones
merge_every_topic(notifications, selected, w, t) ==
    merge_loop(notifications, <<"billing", "security">>, w, t)

\* the loop run on an emptied list: the records become the selection
merge_replacing(notifications, selected, w, t) ==
    merge_loop(<<>>, selected, w, t)

\* lines 284-336: the loop over selected_topics
merge_notifications(notifications, selected, w, t) ==
    merge_loop(notifications, selected, w, t)

\* lines 131-182, 296-303: one transport send is issued when "Send Now" is
\* pressed for a topic and the sender is configured; its outcome changes
\* nothing but the message shown
send_instant_email(snd, configured, s, recipient_email, topic, t) ==
    IF configured
    THEN [snd EXCEPT ![<<s, recipient_email, topic, t>>] = @ + 1]
    ELSE snd

\* button: "none", "update", "send" (of topic arg), "save"
NotificationsTab(rs, button, arg, configured, w, t) ==
    LET idx == SelectedRecipient(rs, w)
    IN IF rs.raised \/ idx = 0 THEN rs
       ELSE IF ~DefaultsValid(rs, idx) THEN [rs EXCEPT !.raised = TRUE]
       ELSE
         LET selected == SelectedTopics(rs, w, idx)
             r1 == IF button = "update"
                   THEN SaveOrRaise(
                            [rs EXCEPT !.recipients[idx].topics = selected])
                   ELSE rs
             r2 == [r1 EXCEPT
                      !.sends =
                          IF button = "send" /\ arg \in ToSet(selected)
                             /\ Frequency(w, arg) = "instant"
                          THEN send_instant_email(r1.sends, configured,
                                   r1.sess, r1.recipients[idx].email, arg, t)
                          ELSE r1.sends,
                      !.recipients[idx].notifications =
                          merge_notifications(@, selected, w, t),
                      !.merged = TRUE,
                      !.idx = idx,
                      !.selected = selected,
                      !.freq = [tp \in Topics |->
                                   IF tp \in ToSet(selected)
                                   THEN Frequency(w, tp) ELSE "instant"]]
         IN IF r1.raised THEN r1
            ELSE IF button = "save" THEN SaveOrRaise(r2)
            ELSE r2

----------------------------------------------------------------------------
(* The state machine.                                                      *)

NoSends == [k \in Sessions \X Emails \X Topics \X Times |-> 0]

NoRun ==
    [op |-> "init", sess |-> "s1", arg |-> "", pos |-> 0, merged |-> FALSE,
     idx |-> 0, selected |-> <<>>, freq |-> [t \in Topics |-> "instant"]]

\* no session is open; data.json is absent (a fresh installation) or was
\* left by earlier use
Init ==
    /\ session = [s \in Sessions |->
                     [started |-> FALSE, recipients |-> <<>>, topics |-> <<>>]]
    /\ file \in {NoFile, SeededFile}
    /\ now = 0
    /\ sends = NoSends
    /\ steps = 0
    /\ budget = MaxSteps
    /\ last = NoRun

\* the end of a run: session state keeps what the run assigned before it
\* ended or raised
Commit(rs, op, arg, pos) ==
    /\ session' = [session EXCEPT ![rs.sess] =
                      [started |-> TRUE, recipients |-> rs.recipients,
                       topics |-> rs.topics]]
    /\ file' = rs.file
    /\ sends' = rs.sends
    /\ steps' = steps + 1
    /\ last' = [op |-> op, sess |-> rs.sess, arg |-> arg, pos |-> pos,
                merged |-> rs.merged, idx |-> rs.idx,
                selected |-> rs.selected, freq |-> rs.freq]
    /\ UNCHANGED <<now, budget>>

\* lines 190-191 and the rest of the first run, all widgets at their
\* defaults; json.load raises on a truncated document and the session
\* does not start
StartSession(s) ==
    /\ steps < budget
    /\ ~session[s].started
    /\ file.status # "corrupt"
    /\ LET d == load_data(file)
       IN Commit(NotificationsTab(RunState(s, d.recipients, d.topics),
                                  "none", "", FALSE, DefaultWidgets, now),
                 "start", "", 0)

\* a widget was changed: no button is pressed in the run
RerunWidget(s, w) ==
    /\ steps < budget
    /\ session[s].started
    /\ Commit(NotificationsTab(Begin(s), "none", "", FALSE, w, now),
              "widget", "", 0)

ClickAdd(s, new_email, w) ==
    /\ steps < budget
    /\ session[s].started
    /\ ValidEmail(new_email) => Len(session[s].recipients) < MaxRecipients
    /\ Commit(NotificationsTab(add_recipient(Begin(s), new_email),
                               "none", "", FALSE, w, now),
              "add", new_email, 0)

\* st.rerun() after a successful save starts the script again with no
\* button pressed; a failed save ends the run
ClickRemove(s, i, w) ==
    /\ steps < budget
    /\ session[s].started
    /\ i \in 1..Len(session[s].recipients)
    /\ Commit(NotificationsTab(remove_recipient(Begin(s), i),
                               "none", "", FALSE, w, now),
              "remove", session[s].recipients[i].email, i)

ClickLoadTopics(s, fetch, w) ==
    /\ steps < budget
    /\ session[s].started
    /\ Commit(NotificationsTab(reload_topics(Begin(s), fetch),
                               "none", "", FALSE, w, now),
              "load",
              IF load_topics_from_sheets(fetch) = <<>> THEN "failed"
              ELSE "loaded",
              0)

\* the buttons of the Notifications tab exist only when a recipient is
\* selected and the multiselect did not raise
TabShown(s, w) ==
    /\ session[s].started
    /\ SelectedRecipient(Begin(s), w) # 0
    /\ DefaultsValid(Begin(s), SelectedRecipient(Begin(s), w))

ClickUpdateTopics(s, w) ==
    /\ steps < budget
    /\ TabShown(s, w)
    /\ Commit(NotificationsTab(Begin(s), "update", "", FALSE, w, now),
              "update", "", 0)

ClickSendNow(s, topic, configured, w) ==
    /\ steps < budget
    /\ TabShown(s, w)
    /\ topic \in ToSet(SelectedTopics(Begin(s), w,
                                      SelectedRecipient(Begin(s), w)))
    /\ Frequency(w, topic) = "instant"
    /\ Commit(NotificationsTab(Begin(s), "send", topic, configured, w, now),
              "send", topic, 0)

ClickSave(s, w) ==
    /\ steps < budget
    /\ TabShown(s, w)
    /\ Commit(NotificationsTab(Begin(s), "save", "", FALSE, w, now),
              "save", "", 0)

Tick ==
    /\ now < MaxTime
    /\ now' = now + 1
    /\ UNCHANGED <<session, file, sends, steps, budget, last>>

\* one operator session
Next ==
    \/ StartSession("s1")
    \/ \E w \in WidgetInputs : RerunWidget("s1", w)
    \/ \E e \in EmailTexts, w \in WidgetInputs : ClickAdd("s1", e, w)
    \/ \E i \in 1..MaxRecipients, w \in WidgetInputs : ClickRemove("s1", i, w)
    \/ \E f \in FetchOutcomes, w \in WidgetInputs : ClickLoadTopics("s1", f, w)
    \/ \E w \in WidgetInputs : ClickUpdateTopics("s1", w)
    \/ \E t \in Topics, c \in BOOLEAN, w \in WidgetInputs :
           ClickSendNow("s1", t, c, w)
    \/ \E w \in WidgetInputs : ClickSave("s1", w)
    \/ Tick

Spec == Init /\ [][Next]_vars

\* two operator sessions, both open on the same saved directory
InitConc ==
    /\ session = [s \in Sessions |->
                     [started |-> TRUE, recipients |-> SeededFile.recipients,
                      topics |-> SeededFile.topics]]
    /\ file = SeededFile
    /\ now = 0
    /\ sends = NoSends
    /\ steps = 0
    /\ budget = MaxConcSteps
    /\ last = NoRun

NextConc ==
    \/ \E s \in Sessions, w \in WidgetInputs : RerunWidget(s, w)
    \/ \E s \in Sessions, e \in EmailTexts, w \in WidgetInputs :
           ClickAdd(s, e, w)
    \/ \E s \in Sessions, i \in 1..MaxRecipients, w \in WidgetInputs :
           ClickRemove(s, i, w)
    \/ \E s \in Sessions, f \in FetchOutcomes, w \in WidgetInputs :
           ClickLoadTopics(s, f, w)
    \/ \E s \in Sessions, w \in WidgetInputs : ClickUpdateTopics(s, w)
    \/ \E s \in Sessions, t \in Topics, c \in BOOLEAN, w \in WidgetInputs :
           ClickSendNow(s, t, c, w)
    \/ \E s \in Sessions, w \in WidgetInputs : ClickSave(s, w)
    \/ Tick

SpecConc == InitConc /\ [][NextConc]_vars

----------------------------------------------------------------------------
(* Properties.  A step is a script run when it advances steps; last' then  *)
(* describes the run, since session and last change together.              *)

IsRun == steps' = steps + 1

\* the recipients of the session of the run, before and after it
Before == session[last'.sess].recipients
After == session'[last'.sess].recipients

\* where recipient i of Before is found in After: list.pop shifts the
\* recipients behind the removed one
Kept(i) == last'.pos = 0 \/ i # last'.pos
Moved(i) == IF last'.pos # 0 /\ i > last'.pos THEN i - 1 ELSE i

\* the widget values that repeat the merge of the latest run
LastWidgets ==
    [fresh |-> FALSE, sel |-> session[last.sess].recipients[last.idx].email,
     selected |-> last.selected, freq |-> last.freq]

TopicsOf(notifications) ==
    {notifications[k].topic : k \in 1..Len(notifications)}

AllRecords ==
    {<<s, i, k>> \in Sessions \X (1..MaxRecipients) \X (1..Cardinality(Topics)) :
        /\ i <= Len(session[s].recipients)
        /\ k <= Len(session[s].recipients[i].notifications)}

RecordAt(p) == session[p[1]].recipients[p[2]].notifications[p[3]]

(* C1: at-most-once.  Two sessions that press "Send Now" for the same      *)
(* (recipient, topic) record at the same instant issue one transport send  *)
(* between them: no record is sent at one instant by both sessions.        *)
C1_AtMostOnce ==
    \A e \in Emails, tp \in Topics, t \in Times :
        ~(sends[<<"s1", e, tp, t>>] >= 1 /\ sends[<<"s2", e, tp, t>>] >= 1)

(* C2: uniqueness.  No recipient holds two Notification records with the   *)
(* same topic, in any session, after any sequence of runs.                 *)
C2_UniqueTopics ==
    \A s \in Sessions : \A i \in 1..Len(session[s].recipients) :
        LET n == session[s].recipients[i].notifications
        IN \A j, k \in 1..Len(n) : j # k => n[j].topic # n[k].topic

\* a recipient holds two records, one of which a later merge has updated
\* in place (its frequency is no longer the one that stamps last_sent)
C2_Witness ==
    \E s \in Sessions : \E i \in 1..Len(session[s].recipients) :
        LET n == session[s].recipients[i].notifications
        IN /\ Len(n) = 2
           /\ \E k \in 1..2 : n[k].frequency # "instant" /\ n[k].last_sent # None

(* C3: directory uniqueness.  A run that adds an address the directory     *)
(* already holds leaves the directory, in memory and as saved, as it was.  *)
C3_DuplicateRejected ==
    [][(IsRun /\ last'.op = "add"
          /\ last'.arg \in ToSet(EmailsOf(Before)))
       => (EmailsOf(After) = EmailsOf(Before) /\ file' = file)]_vars

(* C4: instant scenario.  A record of frequency "instant" carries a        *)
(* last_sent only when a transport send for its recipient and topic was    *)
(* issued at that time, and exactly one.                                   *)
C4_InstantStampIsOneSend ==
    \A p \in AllRecords :
        (RecordAt(p).frequency = "instant" /\ RecordAt(p).last_sent # None)
        => sends[<<p[1], session[p[1]].recipients[p[2]].email,
                   RecordAt(p).topic, RecordAt(p).last_sent>>] = 1

(* C5: merge idempotency.  Repeating the merge of the latest run, now or   *)
(* later, keeps the number of records and the topic and frequency of each; *)
(* last_sent stays as it is except for the selected topics of frequency    *)
(* "instant", where it is set and does not go back.                        *)
C5_MergeIdempotent ==
    last.merged =>
        LET once == session[last.sess].recipients[last.idx].notifications
        IN \A t \in now..MaxTime :
             LET twice == merge_notifications(once, last.selected,
                                              LastWidgets, t)
             IN /\ Len(twice) = Len(once)
                /\ \A k \in 1..Len(once) :
                     /\ twice[k].topic = once[k].topic
                     /\ twice[k].frequency = once[k].frequency
                     /\ IF once[k].topic \in ToSet(last.selected)
                           /\ once[k].frequency = "instant"
                        THEN /\ once[k].last_sent # None
                             /\ twice[k].last_sent >= once[k].last_sent
                        ELSE twice[k].last_sent = once[k].last_sent

\* the latest run merged a non-instant frequency into a record that
\* already carried a last_sent
C5_Witness ==
    /\ last.merged
    /\ last.selected # <<>>
    /\ \A tp \in ToSet(last.selected) : last.freq[tp] # "instant"
    /\ \E k \in 1..Len(session[last.sess].recipients[last.idx].notifications) :
         LET r == session[last.sess].recipients[last.idx].notifications[k]
         IN r.topic \in ToSet(last.selected) /\ r.last_sent # None

(* C6: last_sent monotonicity.  Across every run, each record of a         *)
(* recipient that stays in the directory keeps its place and topic, and    *)
(* its last_sent, once set, stays set and never moves back.                *)
C6_LastSentMonotonic ==
    [][IsRun =>
         \A i \in 1..Len(Before) : Kept(i) =>
            /\ Moved(i) <= Len(After)
            /\ LET o == Before[i].notifications
                   n == After[Moved(i)].notifications
               IN /\ Len(o) <= Len(n)
                  /\ \A k \in 1..Len(o) :
                       /\ n[k].topic = o[k].topic
                       /\ o[k].last_sent # None =>
                            (n[k].last_sent # None
                             /\ n[k].last_sent >= o[k].last_sent)]_vars

\* the latest run changed a stamped record to a non-instant frequency and
\* the stamp is still there
C6_Witness ==
    /\ last.merged
    /\ \E k \in 1..Len(session[last.sess].recipients[last.idx].notifications) :
         LET r == session[last.sess].recipients[last.idx].notifications[k]
         IN /\ r.topic \in ToSet(last.selected)
            /\ r.frequency # "instant"
            /\ r.last_sent # None
            /\ r.last_sent < now

(* C7: no lost update.  A save never drops from data.json a recipient that *)
(* another save has put there, unless the run removes a recipient.         *)
C7_NoLostUpdate ==
    [][(IsRun /\ last'.op # "remove"
          /\ file.status = "ok" /\ file'.status = "ok")
       => ToSet(EmailsOf(file.recipients))
              \subseteq ToSet(EmailsOf(file'.recipients))]_vars

(* C8 as stated: the topic of every Notification record of a recipient is  *)
(* one of that recipient's subscribed topics.                              *)
C8_TopicIsSubscribed ==
    \A p \in AllRecords :
        RecordAt(p).topic \in ToSet(session[p[1]].recipients[p[2]].topics)

(* C8 as amended: a run creates records only for the recipient it has      *)
(* selected and only for topics selected in that run, which are topics of  *)
(* the catalog at that time; the recipient's topics list is not consulted. *)
C8_TopicWasSelected ==
    [][IsRun =>
         /\ last'.merged =>
              ToSet(last'.selected)
                  \subseteq ToSet(session'[last'.sess].topics)
         /\ \A j \in 1..Len(After) :
              LET olds == {i \in 1..Len(Before) : Kept(i) /\ Moved(i) = j}
                  had == UNION {TopicsOf(Before[i].notifications) : i \in olds}
                  has == TopicsOf(After[j].notifications)
              IN \A tp \in has :
                   tp \in had
                   \/ (last'.merged /\ j = last'.idx
                       /\ tp \in ToSet(last'.selected))]_vars

\* a record exists for a topic that its recipient is not subscribed to and
\* that the latest run selected
C8_Witness ==
    /\ last.merged
    /\ \E k \in 1..Len(session[last.sess].recipients[last.idx].notifications) :
         LET r == session[last.sess].recipients[last.idx]
         IN /\ r.notifications[k].topic \in ToSet(last.selected)
            /\ r.notifications[k].topic \notin ToSet(r.topics)

(* C9: deselection frame.  A run leaves every other session as it is; in   *)
(* its own session each recipient that stays keeps every record in place,  *)
(* and a record is modified only if the run merged that recipient and the  *)
(* record's topic is among the selected topics.                            *)
C9_DeselectionFrame ==
    [][IsRun =>
         /\ \A u \in Sessions \ {last'.sess} : session'[u] = session[u]
         /\ \A i \in 1..Len(Before) : Kept(i) =>
              /\ Moved(i) <= Len(After)
              /\ After[Moved(i)].email = Before[i].email
              /\ LET o == Before[i].notifications
                     n == After[Moved(i)].notifications
                 IN /\ Len(o) <= Len(n)
                    /\ \A k \in 1..Len(o) :
                         n[k] = o[k]
                         \/ (/\ last'.merged
                             /\ Moved(i) = last'.idx
                             /\ o[k].topic \in ToSet(last'.selected))]_vars

\* the latest run merged a selection into a recipient that keeps a record
\* of a topic the run did not select, in a directory of two recipients
C9_Witness ==
    /\ last.merged
    /\ last.selected # <<>>
    /\ \E k \in 1..Len(session[last.sess].recipients[last.idx].notifications) :
         session[last.sess].recipients[last.idx].notifications[k].topic
             \notin ToSet(last.selected)
    /\ Len(session[last.sess].recipients) = 2

(* C10: failed refresh.  A run whose topic fetch returns nothing keeps the *)
(* catalog and data.json, and changes the recipients only by the merge of  *)
(* the Notifications tab; a "Load Topics" run that changes the catalog or  *)
(* the file is one whose fetch returned topics.                            *)
C10_FailedRefreshIsInert ==
    [][(IsRun /\ last'.op = "load") =>
         /\ last'.arg = "failed" =>
              /\ session'[last'.sess].topics = session[last'.sess].topics
              /\ file' = file
              /\ After =
                   IF last'.merged
                   THEN [Before EXCEPT ![last'.idx].notifications =
                            merge_notifications(@, last'.selected,
                                [fresh |-> FALSE, sel |-> "a@x.com",
                                 selected |-> last'.selected,
                                 freq |-> last'.freq], now)]
                   ELSE Before
         /\ (session'[last'.sess].topics # session[last'.sess].topics
             \/ file' # file) => last'.arg = "loaded"]_vars

\* a failed refresh has run in a session that holds a catalog, with a
\* saved document in place
C10_Witness ==
    /\ last.op = "load"
    /\ last.arg = "failed"
    /\ session[last.sess].topics # <<>>
    /\ file.status = "ok"
    /\ file.topics # <<>>

====
